---------------------------- MODULE Spec2Model ----------------------------
(***************************************************************************)
(* A model of the AI Shop Assistant worker (src/worker/index.js) and of    *)
(* the admin panel that feeds it (src/unnamed/part_000).                   *)
(*                                                                         *)
(* Every inbound HTTP event is one invocation of a handler.  An invocation *)
(* runs from one network suspension point (await fetch) to the next in one *)
(* atomic step; invocations interleave at those points only.  The remote   *)
(* store, the completion backend and the messenger are the environment:    *)
(* each answers a call with one of the outcomes the handler distinguishes. *)
(*                                                                         *)
(* Strings are sequences of symbols.  A symbol is an ASCII chunk (a word,  *)
(* a placeholder token such as "{{name}}", a replacement pattern such as   *)
(* "$&"), or one non-ASCII character, named by its code point: "<E9>" is   *)
(* a Latin-1 letter, "<44F>" a Cyrillic letter, "<FFFD>" the replacement   *)
(* character.  The stored file is a sequence of byte symbols: an ASCII     *)
(* chunk is its own bytes, "<xE9>" is the single byte E9 and "<u8:44F>"    *)
(* the two-byte UTF-8 encoding of U+044F.                                   *)
(***************************************************************************)
EXTENDS Integers, Sequences, FiniteSets, TLC

\* Number of invocations (request slots) of one behaviour.
NumReqs == 2

Reqs == 1..NumReqs

\* JavaScript's undefined (a missing field).
Undefined == <<"<undefined>">>

\* No value yet (a local that was not assigned).
None == -1

(***************************************************************************)
(* Text encodings                                                          *)
(***************************************************************************)

\* Characters above U+00FF: btoa cannot encode them.
WideChars == {"<44F>", "<FFFD>"}

\* Latin-1 characters above U+007F.
HighChars == {"<E9>"}

\* btoa (index.js:151) throws InvalidCharacterError on a character above U+00FF.
BtoaThrows(str) == \E i \in 1..Len(str) : str[i] \in WideChars

\* atob(btoa(str)) as the store decodes it: one byte per character.
BtoaBytes(str) ==
    [i \in 1..Len(str) |-> IF str[i] \in HighChars THEN "<xE9>" ELSE str[i]]

\* The bytes of a file written as UTF-8 (how the repository holds its text).
Utf8Encode(str) ==
    [i \in 1..Len(str) |->
        CASE str[i] = "<E9>"   -> "<u8:E9>"
          [] str[i] = "<44F>"  -> "<u8:44F>"
          [] str[i] = "<FFFD>" -> "<u8:FFFD>"
          [] OTHER             -> str[i]]

\* Response.text() (index.js:41): UTF-8 decoding, a byte that is no valid
\* sequence becomes U+FFFD.
TextDecode(bytes) ==
    [i \in 1..Len(bytes) |->
        CASE bytes[i] = "<xE9>"     -> "<FFFD>"
          [] bytes[i] = "<u8:E9>"   -> "<E9>"
          [] bytes[i] = "<u8:44F>"  -> "<44F>"
          [] bytes[i] = "<u8:FFFD>" -> "<FFFD>"
          [] OTHER                  -> bytes[i]]

(***************************************************************************)
(* JSON values.  A value is a record [kind, items]: kind "invalid" is text *)
(* that is no JSON, "object" a JSON value that is no array, "array" a      *)
(* sequence of prompt records [id, prompt], "missing" no file at all.  The *)
(* name and description fields of a prompt are read by no operation of the *)
(* worker and are left out.                                                *)
(***************************************************************************)

Invalid == [kind |-> "invalid", items |-> <<>>]

NotArray == [kind |-> "object", items |-> <<>>]

Missing == [kind |-> "missing", items |-> <<>>]

Array(items) == [kind |-> "array", items |-> items]

\* atob(btoa(text)) of a serialized JSON value: its syntax is ASCII, the
\* prompt texts are what the encoding can change.
DocBtoaBytes(v) ==
    [v EXCEPT !.items =
        [i \in 1..Len(v.items) |->
            [id |-> v.items[i].id, prompt |-> BtoaBytes(v.items[i].prompt)]]]

\* The UTF-8 bytes of a serialized JSON value.
DocUtf8Encode(v) ==
    [v EXCEPT !.items =
        [i \in 1..Len(v.items) |->
            [id |-> v.items[i].id, prompt |-> Utf8Encode(v.items[i].prompt)]]]

\* The JSON value read from the bytes of a file.
DocTextDecode(v) ==
    [v EXCEPT !.items =
        [i \in 1..Len(v.items) |->
            [id |-> v.items[i].id, prompt |-> TextDecode(v.items[i].prompt)]]]

\* Some prompt text of the value makes btoa throw.
DocBtoaThrows(v) == \E i \in 1..Len(v.items) : BtoaThrows(v.items[i].prompt)

\* The file the repository starts with.
InitialDoc ==
    Array(<< [id |-> "a", prompt |-> <<"Hello ", "{{name}}">>],
             [id |-> "product_recommendation",
              prompt |-> <<"{{user_preferences}}", "{{product_data}}">>] >>)

\* Another file, as a client other than the admin panel may post it.
OtherDoc ==
    Array(<< [id |-> "a", prompt |-> <<"{{order_number}}">>],
             [id |-> "b", prompt |-> <<"Bye">>] >>)

\* What an admin may type into a prompt field.
EditTexts == { <<"Hi ", "{{user_preferences}}">>, <<"<E9>">>, <<"<44F>">> }

(***************************************************************************)
(* The template engine of callGeminiApi (index.js:55-61)                   *)
(***************************************************************************)

\* The replacement string of String.prototype.replace: "$&" stands for the
\* matched text and "$$" for one "$".
RECURSIVE Expand(_, _)
Expand(val, matched) ==
    IF val = <<>> THEN <<>>
    ELSE (CASE Head(val) = "$&" -> <<matched>>
            [] Head(val) = "$$" -> <<"$">>
            [] OTHER            -> <<Head(val)>>) \o Expand(Tail(val), matched)

\* str.replace(/ph/g, val): every occurrence, left to right, no rescan.
\* A replace without the g flag: only the first occurrence is replaced.
RECURSIVE ReplaceAll_FirstOnly(_, _, _)
ReplaceAll_FirstOnly(str, ph, val) ==
    IF str = <<>> THEN <<>>
    ELSE IF Head(str) = ph
         THEN Expand(val, ph) \o Tail(str)
         ELSE <<Head(str)>> \o ReplaceAll_FirstOnly(Tail(str), ph, val)

RECURSIVE ReplaceAll(_, _, _)
ReplaceAll(str, ph, val) ==
    IF str = <<>> THEN <<>>
    ELSE (IF Head(str) = ph THEN Expand(val, ph) ELSE <<Head(str)>>)
         \o ReplaceAll(Tail(str), ph, val)

ProductData == <<"product data">>

SizeChart == <<"size chart">>

OrderStatusData == <<"order status">>

\* The chain of six replacements, in the order of the code.
FinalPrompt(promptTemplate, userMessage) ==
    LET s1 == ReplaceAll(promptTemplate, "{{user_preferences}}", userMessage)
        s2 == ReplaceAll(s1, "{{product_data}}", ProductData)
        s3 == ReplaceAll(s2, "{{size_chart}}", SizeChart)
        s4 == ReplaceAll(s3, "{{user_measurements}}", userMessage)
        s5 == ReplaceAll(s4, "{{order_number}}", userMessage)
    IN  ReplaceAll(s5, "{{order_status_data}}", OrderStatusData)

(***************************************************************************)
(* State                                                                   *)
(***************************************************************************)

VARIABLES
    storeBytes,   \* the file at PROMPTS_PATH: a JSON value over byte symbols
    storeSha,     \* its version token: the number of the stored revision
    req           \* the invocations, by slot

vars == <<storeBytes, storeSha, req>>

UndefinedId == "<undefined>"

\* if (!message || !function_id): undefined and the empty string are falsy.
Falsy(str) == str = <<>> \/ str = Undefined

FalsyId(id) == id = "" \/ id = UndefinedId

\* String.prototype.trim on a text of the model: blank symbols at both ends.
RECURSIVE TrimLeft(_)
TrimLeft(str) ==
    IF str # <<>> /\ Head(str) = " " THEN TrimLeft(Tail(str)) ELSE str

RECURSIVE TrimRight(_)
TrimRight(str) ==
    IF str # <<>> /\ str[Len(str)] = " "
    THEN TrimRight(SubSeq(str, 1, Len(str) - 1)) ELSE str

Trim(str) == TrimRight(TrimLeft(str))

\* A Response of a handler.  status 0 with tag "exception" is no response:
\* the handler's promise rejected.  carries names what of the upstream
\* answer the error text holds.
Resp(status, tag, carries, text) ==
    [status |-> status, tag |-> tag, carries |-> carries, text |-> text]

NoResp == Resp(0, "none", {}, <<>>)

\* An outbound call of an invocation.  calls holds the calls in the order
\* they were issued and outs their answers; the other fields of an
\* invocation are the handler's locals (message, function_id, body, sha,
\* content, chatId) and what the properties need to remember: loadedSha (the
\* revision the admin's copy was loaded from), contentRev (the revision the
\* raw request read), replaced (the revision an accepted PUT replaced),
\* caught (what sent the handler to its catch clause) and chatResp (what
\* handleChat returned to the webhook handler).
Call(op, sha, chat, text, doc) ==
    [op |-> op, sha |-> sha, chat |-> chat, text |-> text, doc |-> doc]

IdleReq ==
    [kind |-> "none", pc |-> "idle", env |-> {},
     message |-> Undefined, function_id |-> UndefinedId,
     body |-> Missing, loadedSha |-> None,
     upd |-> "none", chatId |-> None,
     sha |-> None, content |-> Missing, contentRev |-> None,
     replaced |-> None,
     calls |-> <<>>, outs |-> <<>>,
     caught |-> "none", chatResp |-> NoResp, resp |-> NoResp]

\* The texts the worker sends that are fixed in the code.
FallbackText == <<"<fallback>">>

GenericErrorText == <<"<generic error>">>

ErrorPrefix == "<chat error: >"

AnswerText == <<"<answer>">>

\* Invocations are numbered in the order they arrive.
Admit(r) ==
    /\ req[r].pc = "idle"
    /\ IF r = 1 THEN TRUE ELSE req[r - 1].pc # "idle"

Issue(rec, call, pc) == [rec EXCEPT !.calls = Append(@, call), !.pc = pc]

Answered(rec, out) == [rec EXCEPT !.outs = Append(@, out)]

(***************************************************************************)
(* handleTelegramWebhook, its catch clause and its tail                    *)
(***************************************************************************)

\* The catch clause (index.js:245-252).  update is declared by const inside
\* the try block (line 210) and is not in scope here: evaluating it on line
\* 248 throws a ReferenceError, which leaves the handler.
WebhookCatch(rec, cause) ==
    [rec EXCEPT !.pc = "done", !.caught = cause,
                !.resp = Resp(0, "exception", {}, <<>>)]

\* index.js:232-241: the text for the chat, and the notification is sent.
\* A webhook that always forwards the response field, error or not.
WebhookAfterChat_AlwaysResponse(rec, chatResp) ==
    Issue([rec EXCEPT !.chatResp = chatResp],
          Call("SEND", None, rec.chatId, chatResp.text, Missing), "send")

WebhookAfterChat(rec, chatResp) ==
    LET responseText ==
            IF chatResp.status # 200
            THEN <<ErrorPrefix, chatResp.tag>>
            ELSE chatResp.text
    IN  Issue([rec EXCEPT !.chatResp = chatResp],
              Call("SEND", None, rec.chatId, responseText, Missing), "send")

(***************************************************************************)
(* handleChat                                                              *)
(***************************************************************************)

\* handleChat returns resp: to the router, or to the webhook handler.
ChatReturn(rec, resp) ==
    IF rec.kind = "webhook"
    THEN WebhookAfterChat(rec, resp)
    ELSE [rec EXCEPT !.pc = "done", !.resp = resp]

\* The catch clause of handleChat (index.js:123-126).
ChatCatch(rec, cause, carries) ==
    ChatReturn([rec EXCEPT !.caught = cause],
               Resp(500, "internal", carries, <<>>))

\* ChatBegin with the key checked before the fields of the request.
ChatBegin_KeyFirst(rec, parses, message, function_id) ==
    LET rec1 == [rec EXCEPT !.message = message, !.function_id = function_id]
    IN  IF ~parses
        THEN ChatCatch(rec, "body", {})
        ELSE IF "GEMINI_API_KEY" \notin rec.env
        THEN ChatReturn(rec1, Resp(500, "config", {}, <<>>))
        ELSE IF Falsy(message) \/ FalsyId(function_id)
        THEN ChatReturn(rec1, Resp(400, "validation", {}, <<>>))
        ELSE Issue(rec1, Call("GET_META", None, None, <<>>, Missing), "meta")

\* index.js:98-109: validation, the key, and the first request of the fetch.
ChatBegin(rec, parses, message, function_id) ==
    LET rec1 == [rec EXCEPT !.message = message, !.function_id = function_id]
    IN  IF ~parses
        THEN ChatCatch(rec, "body", {})
        ELSE IF Falsy(message) \/ FalsyId(function_id)
        THEN ChatReturn(rec1, Resp(400, "validation", {}, <<>>))
        ELSE IF "GEMINI_API_KEY" \notin rec.env
        THEN ChatReturn(rec1, Resp(500, "config", {}, <<>>))
        ELSE Issue(rec1, Call("GET_META", None, None, <<>>, Missing), "meta")

\* FindPrompt falling back to the first prompt when none matches.
FindPrompt_FirstOnMiss(items, function_id) ==
    IF \E i \in 1..Len(items) : items[i].id = function_id
    THEN CHOOSE i \in 1..Len(items) :
            /\ items[i].id = function_id
            /\ \A j \in 1..(i - 1) : items[j].id # function_id
    ELSE IF items = <<>> THEN 0 ELSE 1

\* prompts.find(p => p.id === function_id): the index of the first match, 0
\* when there is none.
FindPrompt(items, function_id) ==
    IF \E i \in 1..Len(items) : items[i].id = function_id
    THEN CHOOSE i \in 1..Len(items) :
            /\ items[i].id = function_id
            /\ \A j \in 1..(i - 1) : items[j].id # function_id
    ELSE 0

\* index.js:110-119 and 55-71: parse, select, render, call the backend.
\* A chat handler that selects the prompt from a copy of the document kept
\* from an earlier read instead of the one it has just read.
ChatAfterFetch_Cached(rec) ==
    LET i == FindPrompt(InitialDoc.items, rec.function_id)
    IN  IF i = 0
        THEN ChatReturn(rec, Resp(404, "notfound", {}, <<>>))
        ELSE Issue(rec,
                   Call("GEMINI", None, None,
                        FinalPrompt(InitialDoc.items[i].prompt, rec.message),
                        Missing),
                   "gen")

ChatAfterFetch(rec) ==
    IF rec.content.kind # "array"
    THEN ChatCatch(rec, "parse", {})
    ELSE LET i == FindPrompt(rec.content.items, rec.function_id)
         IN  IF i = 0
             THEN ChatReturn(rec, Resp(404, "notfound", {}, <<>>))
             ELSE Issue(rec,
                        Call("GEMINI", None, None,
                             FinalPrompt(rec.content.items[i].prompt, rec.message),
                             Missing),
                        "gen")

(***************************************************************************)
(* handleSavePrompts                                                       *)
(***************************************************************************)

\* SaveCatch without the check of commitResponse.ok: a refused commit is
\* reported as saved.
SaveCatch_CommitUnchecked(rec, cause, carries) ==
    IF cause = "put"
    THEN [rec EXCEPT !.pc = "done", !.resp = Resp(200, "success", {}, <<>>)]
    ELSE [rec EXCEPT !.pc = "done", !.caught = cause,
                     !.resp = Resp(500, "internal", carries, <<>>)]

\* The catch clause of handleSavePrompts (index.js:165-168, 172-175).
SaveCatch(rec, cause, carries) ==
    [rec EXCEPT !.pc = "done", !.caught = cause,
                !.resp = Resp(500, "internal", carries, <<>>)]

\* SaveBegin without the check of GITHUB_PAT.
SaveBegin_NoCredentialCheck(rec) ==
    IF rec.body.kind = "invalid"
    THEN SaveCatch(rec, "body", {})
    ELSE Issue(rec, Call("GET_META", None, None, <<>>, Missing), "meta")

\* index.js:136-145: the credential, the body, the first request of the fetch.
SaveBegin(rec) ==
    IF "GITHUB_PAT" \notin rec.env
    THEN [rec EXCEPT !.pc = "done", !.resp = Resp(500, "config", {}, <<>>)]
    ELSE IF rec.body.kind = "invalid"
    THEN SaveCatch(rec, "body", {})
    ELSE Issue(rec, Call("GET_META", None, None, <<>>, Missing), "meta")

\* SaveAfterFetch sending the token of the caller's copy instead.
SaveAfterFetch_CallerSha(rec) ==
    IF DocBtoaThrows(rec.body)
    THEN SaveCatch(rec, "btoa", {})
    ELSE Issue(rec,
               Call("PUT", rec.loadedSha, None, <<>>,
                    DocBtoaBytes(rec.body)),
               "put")

\* index.js:148-163: the commit body is built and the PUT is sent with the
\* sha the fetch returned.
SaveAfterFetch(rec) ==
    IF DocBtoaThrows(rec.body)
    THEN SaveCatch(rec, "btoa", {})
    ELSE Issue(rec,
               Call("PUT", rec.sha, None, <<>>, DocBtoaBytes(rec.body)),
               "put")

(***************************************************************************)
(* The remote store, as the interface the worker uses presents it          *)
(***************************************************************************)

\* The conditional write: the store accepts a PUT whose sha is the token of
\* the revision it holds.
StoreAccepts(sha) == storeBytes.kind # "missing" /\ sha = storeSha

\* The text a reader of the raw file gets.
StoreText == DocTextDecode(storeBytes)

(***************************************************************************)
(* Actions: the admin panel                                                *)
(***************************************************************************)

\* fetchPrompts (part_000:50-70): the panel loads its copy of the file.
\* loadedSha remembers which revision that was; the panel itself keeps no
\* token (originalFileSha is never assigned).
AdminLoad(r) ==
    /\ Admit(r)
    /\ storeBytes.kind = "array"
    /\ req' = [req EXCEPT ![r] =
                  [@ EXCEPT !.kind = "save", !.pc = "loaded",
                            !.body = StoreText, !.loadedSha = storeSha]]
    /\ UNCHANGED <<storeBytes, storeSha>>

\* handleInputChange (part_000:40-46): one field of the copy is overwritten
\* and the save button is enabled.
AdminEdit(r, index, value) ==
    /\ req[r].pc \in {"loaded", "edited"}
    /\ index \in 1..Len(req[r].body.items)
    /\ req' = [req EXCEPT ![r] =
                  [@ EXCEPT !.pc = "edited",
                            !.body.items[index].prompt = value]]
    /\ UNCHANGED <<storeBytes, storeSha>>

(***************************************************************************)
(* Actions: the arrival of a request                                       *)
(***************************************************************************)

\* savePrompts (part_000:72-97) posts the copy; handleSavePrompts starts.
SaveSubmit(r, env) ==
    /\ req[r].pc = "edited"
    /\ req' = [req EXCEPT ![r] = SaveBegin([@ EXCEPT !.env = env])]
    /\ UNCHANGED <<storeBytes, storeSha>>

\* POST /api/save-prompts from any other client, with any body.
SaveDirect(r, body, env) ==
    /\ Admit(r)
    /\ req' = [req EXCEPT ![r] =
                  SaveBegin([@ EXCEPT !.kind = "save", !.env = env,
                                      !.body = body])]
    /\ UNCHANGED <<storeBytes, storeSha>>

\* POST /api/chat.
ChatStart(r, parses, message, function_id, env) ==
    /\ Admit(r)
    /\ req' = [req EXCEPT ![r] =
                  ChatBegin([@ EXCEPT !.kind = "chat", !.env = env],
                            parses, message, function_id)]
    /\ UNCHANGED <<storeBytes, storeSha>>

\* POST /telegram-webhook (index.js:204-231).  upd is the shape of the
\* update: "bad" does not parse, "nomsg" has no message, "notext" a message
\* without text, "nochat" a text message without chat, "full" both.
WebhookStart(r, upd, text, chatId, env) ==
    /\ Admit(r)
    /\ LET rec == [req[r] EXCEPT !.kind = "webhook", !.env = env, !.upd = upd]
       IN  req' = [req EXCEPT ![r] =
             IF "TELEGRAM_BOT_TOKEN" \notin env
             THEN [rec EXCEPT !.pc = "done",
                              !.resp = Resp(500, "config", {}, <<>>)]
             ELSE IF upd = "bad"
             THEN WebhookCatch(rec, "update")
             ELSE IF upd \in {"nomsg", "notext"}
             THEN [rec EXCEPT !.pc = "done", !.resp = Resp(200, "OK", {}, <<>>)]
             ELSE IF upd = "nochat"
             THEN WebhookCatch(rec, "chat.id")
             ELSE ChatBegin([rec EXCEPT !.chatId = chatId], TRUE, Trim(text),
                            "product_recommendation")]
    /\ UNCHANGED <<storeBytes, storeSha>>

(***************************************************************************)
(* Actions: the answers to the outbound calls                              *)
(***************************************************************************)

\* A failure of fetchPromptsFromGitHub reaches the catch clause of its caller.
\* A fetch whose failure is not thrown: the save goes on to its write.
FetchCatch_SaveProceeds(rec, cause, carries) ==
    IF rec.kind = "save"
    THEN SaveAfterFetch(rec)
    ELSE ChatCatch(rec, cause, carries)

FetchCatch(rec, cause, carries) ==
    IF rec.kind = "save"
    THEN SaveCatch(rec, cause, carries)
    ELSE ChatCatch(rec, cause, carries)

\* fetchPromptsFromGitHub, the metadata request (index.js:21-35).  "net":
\* fetch rejects; "http": a status that is not ok (404 when there is no file),
\* reported by its statusText alone.
MetaResponse(r, out) ==
    /\ req[r].pc = "meta"
    /\ out = "ok" => storeBytes.kind # "missing"
    /\ LET rec == Answered(req[r], out)
       IN  req' = [req EXCEPT ![r] =
             CASE out = "net"  -> FetchCatch(rec, "meta", {})
               [] out = "http" -> FetchCatch(rec, "meta", {"statusText"})
               [] OTHER        ->
                    Issue([rec EXCEPT !.sha = storeSha],
                          Call("GET_RAW", None, None, <<>>, Missing), "raw")]
    /\ UNCHANGED <<storeBytes, storeSha>>

\* fetchPromptsFromGitHub, the raw request (index.js:35-43), and what its
\* caller does with the result up to its next call.
RawResponse(r, out) ==
    /\ req[r].pc = "raw"
    /\ out = "ok" => storeBytes.kind # "missing"
    /\ LET rec == Answered(req[r], out)
           got == [rec EXCEPT !.content = StoreText, !.contentRev = storeSha]
       IN  req' = [req EXCEPT ![r] =
             CASE out = "net"  -> FetchCatch(rec, "raw", {})
               [] out = "http" -> FetchCatch(rec, "raw", {"statusText"})
               [] OTHER        ->
                    IF rec.kind = "save"
                    THEN SaveAfterFetch(got)
                    ELSE ChatAfterFetch(got)]
    /\ UNCHANGED <<storeBytes, storeSha>>

\* PutResponse with a silent retry: on a conflict the handler reads the
\* token again and repeats the write, which then succeeds.
PutResponse_RetryOnConflict(r, out) ==
    /\ req[r].pc = "put"
    /\ LET put == req[r].calls[Len(req[r].calls)]
           accepted == out = "deliver" /\ storeBytes.kind # "missing"
       IN  /\ req' = [req EXCEPT ![r] =
                CASE accepted ->
                       [Answered(@, "accepted") EXCEPT
                           !.pc = "done", !.replaced = storeSha,
                           !.resp = Resp(200, "success", {}, <<>>)]
                  [] out = "http" ->
                       SaveCatch(Answered(@, "http"), "put", {"status", "body"})
                  [] OTHER ->
                       SaveCatch(Answered(@, "net"), "put", {})]
           /\ storeBytes' = IF accepted THEN put.doc ELSE storeBytes
           /\ storeSha' = IF accepted THEN storeSha + 1 ELSE storeSha

\* The answer to the PUT (index.js:155-170).  "deliver": the store decides;
\* "http": it refuses for another reason (credential, validation); "net":
\* the request does not reach it.
PutResponse(r, out) ==
    /\ req[r].pc = "put"
    /\ LET put == req[r].calls[Len(req[r].calls)]
           accepted == out = "deliver" /\ StoreAccepts(put.sha)
       IN  /\ req' = [req EXCEPT ![r] =
                CASE accepted ->
                       [Answered(@, "accepted") EXCEPT
                           !.pc = "done", !.replaced = storeSha,
                           !.resp = Resp(200, "success", {}, <<>>)]
                  [] out = "deliver" /\ ~accepted ->
                       SaveCatch(Answered(@, "conflict"), "put",
                                 {"status", "body"})
                  [] out = "http" ->
                       SaveCatch(Answered(@, "http"), "put", {"status", "body"})
                  [] OTHER ->
                       SaveCatch(Answered(@, "net"), "put", {})]
           /\ storeBytes' = IF accepted THEN put.doc ELSE storeBytes
           /\ storeSha' = IF accepted THEN storeSha + 1 ELSE storeSha

\* The shapes of an answer of the completion backend (index.js:73-86).
GenOutcomes ==
    {"net", "http", "badJson", "noCandidates", "noContent", "noParts",
     "emptyParts", "noText", "text"}

\* callGeminiApi from the answer on, and the return of handleChat
\* (index.js:73-86, 119-126).
GenResponse(r, out) ==
    /\ req[r].pc = "gen"
    /\ LET rec == Answered(req[r], out)
       IN  req' = [req EXCEPT ![r] =
             CASE out = "net" -> ChatCatch(rec, "gen", {})
               [] out = "http" -> ChatCatch(rec, "gen", {"status", "body"})
               [] out = "badJson" -> ChatCatch(rec, "gen", {})
               [] out \in {"noCandidates", "noContent", "noParts"} ->
                    ChatReturn(rec, Resp(200, "response", {}, FallbackText))
               [] out = "emptyParts" -> ChatCatch(rec, "gen", {})
               [] out = "noText" ->
                    ChatReturn(rec, Resp(200, "response", {}, Undefined))
               [] OTHER ->
                    ChatReturn(rec, Resp(200, "response", {}, AnswerText))]
    /\ UNCHANGED <<storeBytes, storeSha>>

\* sendTelegramMessage returns (index.js:186-197, 241-243): the status of
\* the answer is not read, only a rejected fetch throws.
SendResponse(r, out) ==
    /\ req[r].pc = "send"
    /\ LET rec == Answered(req[r], out)
       IN  req' = [req EXCEPT ![r] =
             IF out = "net"
             THEN WebhookCatch(rec, "send")
             ELSE [rec EXCEPT !.pc = "done", !.resp = Resp(200, "OK", {}, <<>>)]]
    /\ UNCHANGED <<storeBytes, storeSha>>

(***************************************************************************)
(* The specification                                                       *)
(***************************************************************************)

Init ==
    /\ storeBytes \in {DocUtf8Encode(InitialDoc), Missing}
    /\ storeSha = 0
    /\ req = [r \in Reqs |-> IdleReq]

Messages == {Undefined, <<>>, <<"World">>}

FunctionIds == {UndefinedId, "", "a", "zzz"}

ChatIds == {101, 102}

Next ==
    \E r \in Reqs :
        \/ AdminLoad(r)
        \/ \E i \in 1..2, t \in EditTexts : AdminEdit(r, i, t)
        \/ \E env \in SUBSET {"GITHUB_PAT"} : SaveSubmit(r, env)
        \/ \E body \in {Invalid, NotArray, OtherDoc}, env \in SUBSET {"GITHUB_PAT"} :
              SaveDirect(r, body, env)
        \/ \E parses \in BOOLEAN, m \in Messages, f \in FunctionIds,
              env \in SUBSET {"GEMINI_API_KEY"} :
              ChatStart(r, parses, m, f, env)
        \/ \E upd \in {"bad", "nomsg", "notext", "nochat", "full"},
              text \in {<<" ">>, <<"World">>}, c \in ChatIds,
              env \in SUBSET {"TELEGRAM_BOT_TOKEN", "GEMINI_API_KEY"} :
              WebhookStart(r, upd, text, c, env)
        \/ \E out \in {"ok", "http", "net"} : MetaResponse(r, out)
        \/ \E out \in {"ok", "http", "net"} : RawResponse(r, out)
        \/ \E out \in {"deliver", "http", "net"} : PutResponse(r, out)
        \/ \E out \in GenOutcomes : GenResponse(r, out)
        \/ \E out \in {"ok", "http", "net"} : SendResponse(r, out)

Spec == Init /\ [][Next]_vars

(***************************************************************************)
(* Properties                                                              *)
(***************************************************************************)

\* The positions of the calls of kind op in the log of invocation r.
CallsOf(r, op) == {i \in 1..Len(req[r].calls) : req[r].calls[i].op = op}

\* The answer to call i of invocation r, "pending" while there is none.
OutOf(r, i) == IF i <= Len(req[r].outs) THEN req[r].outs[i] ELSE "pending"

\* Invocation r of handleSavePrompts has been entered.
SaveEntered(r) ==
    req[r].kind = "save" /\ req[r].pc \notin {"idle", "loaded", "edited"}

\* C1: every PUT of a handleSavePrompts invocation carries the sha that the
\* metadata request of the same invocation returned, issued after that
\* request and the raw request were answered, never the token of the
\* caller's copy; and when the store accepts the PUT the invocation answers
\* 200 success.
C1_PutCarriesFetchedSha ==
    \A r \in Reqs : \A i \in CallsOf(r, "PUT") :
        /\ req[r].kind = "save"
        /\ i = 3
        /\ req[r].calls[1].op = "GET_META" /\ OutOf(r, 1) = "ok"
        /\ req[r].calls[2].op = "GET_RAW" /\ OutOf(r, 2) = "ok"
        /\ req[r].calls[i].sha = req[r].sha
        /\ req[r].sha # None
        /\ OutOf(r, i) = "accepted" =>
              /\ req[r].pc = "done"
              /\ req[r].resp.status = 200
              /\ req[r].resp.tag = "success"

\* A save is accepted whose token differs from the revision its admin loaded.
C1_Witness ==
    \E r \in Reqs :
        /\ req[r].kind = "save"
        /\ req[r].resp.status = 200
        /\ req[r].loadedSha # None
        /\ \E i \in CallsOf(r, "PUT") :
              /\ OutOf(r, i) = "accepted"
              /\ req[r].calls[i].sha = req[r].sha
              /\ req[r].calls[i].sha # req[r].loadedSha

\* The store answered the PUT of r (it accepted it or found a conflict).
PutDecided(r) ==
    \E i \in CallsOf(r, "PUT") : OutOf(r, i) \in {"accepted", "conflict"}

PutAccepted(r) == \E i \in CallsOf(r, "PUT") : OutOf(r, i) = "accepted"

\* The saves r1 and r2 read the same token and both sent their PUT.
SameTokenRace(r1, r2) ==
    /\ r1 # r2
    /\ req[r1].kind = "save" /\ req[r2].kind = "save"
    /\ PutDecided(r1) /\ PutDecided(r2)
    /\ req[r1].sha = req[r2].sha

\* Invocation r lost a race: one PUT, a conflict, 500, nothing more.
LostRace(r) ==
    /\ Cardinality(CallsOf(r, "PUT")) = 1
    /\ \A i \in CallsOf(r, "PUT") :
          OutOf(r, i) = "conflict" /\ i = Len(req[r].calls)
    /\ req[r].pc = "done"
    /\ req[r].resp.status = 500

\* The step in which the store refuses the PUT of r as a conflict.
ConflictStep(r) ==
    /\ req[r].pc = "put"
    /\ req'[r].pc = "done"
    /\ req'[r].outs[Len(req'[r].outs)] = "conflict"

\* C2: of two saves that read the same token and both reach the store,
\* exactly one is accepted; the other is refused as a conflict, answers 500
\* after its single PUT, and the step that refuses it changes neither the
\* stored file nor its token.
C2_OneWriterWins ==
    [][ /\ \A r \in Reqs :
              ConflictStep(r) =>
                  /\ storeBytes' = storeBytes
                  /\ storeSha' = storeSha
                  /\ req'[r].resp.status = 500
                  /\ req'[r].calls = req[r].calls
        /\ (\A r1, r2 \in Reqs :
              SameTokenRace(r1, r2) =>
                  /\ PutAccepted(r1) # PutAccepted(r2)
                  /\ ~PutAccepted(r1) => LostRace(r1)
                  /\ ~PutAccepted(r2) => LostRace(r2))'
      ]_vars

\* Two saves raced on one token; one won and the other answered 500.
C2_Witness ==
    \E r1, r2 \in Reqs :
        /\ SameTokenRace(r1, r2)
        /\ PutAccepted(r1)
        /\ LostRace(r2)
        /\ req[r1].resp.status = 200

\* C3 as claimed: a save of an admin session that answers 200 replaced the
\* revision that session had loaded (nobody committed in between).
C3_NoClobberSinceLoad ==
    \A r \in Reqs :
        (/\ req[r].kind = "save"
         /\ req[r].loadedSha # None
         /\ req[r].resp.status = 200)
        => req[r].replaced = req[r].loadedSha

\* C3, amended: a save that answers 200 replaced exactly the revision whose
\* token its own metadata request returned, so nothing was committed between
\* that request and its write; the revision replaced is the one its admin
\* loaded or a later one.
C3_NoClobberSinceFetch ==
    \A r \in Reqs :
        (req[r].kind = "save" /\ req[r].resp.status = 200)
        => /\ req[r].replaced # None
           /\ req[r].replaced = req[r].sha
           /\ req[r].replaced >= req[r].loadedSha
           /\ storeSha > req[r].replaced

\* A save answered 200 after replacing a revision another session committed
\* after this session had loaded its copy.
C3_Witness ==
    \E r1, r2 \in Reqs :
        /\ r1 # r2
        /\ req[r1].kind = "save" /\ req[r2].kind = "save"
        /\ req[r1].resp.status = 200 /\ req[r2].resp.status = 200
        /\ req[r1].loadedSha # None /\ req[r2].loadedSha # None
        /\ req[r2].loadedSha = req[r1].replaced
        /\ req[r2].replaced = req[r1].replaced + 1

\* C4 as claimed: no invocation of a handler ends with an exception leaving
\* the handler; every finished invocation has a response with an HTTP status.
C4_NoExceptionEscapes ==
    \A r \in Reqs :
        /\ req[r].resp.tag # "exception"
        /\ req[r].pc = "done" => req[r].resp.status \in {200, 400, 404, 500}

\* handleChat was called in invocation r: by the router, or by the webhook
\* handler for an update with a text and a chat.
ChatEntered(r) ==
    \/ req[r].kind = "chat" /\ req[r].pc # "idle"
    \/ /\ req[r].kind = "webhook"
       /\ req[r].upd = "full"
       /\ "TELEGRAM_BOT_TOKEN" \in req[r].env

\* What handleChat returned in invocation r (NoResp while it runs).
ChatResult(r) ==
    IF req[r].kind = "webhook" THEN req[r].chatResp ELSE req[r].resp

\* C5: when handleChat has fetched a document that is an array of prompts
\* none of which has the id function_id, it returns 404 not found, and the
\* invocation makes no call to the completion backend.
C5_UnknownFunction404 ==
    \A r \in Reqs :
        (/\ ChatEntered(r)
         /\ req[r].contentRev # None
         /\ req[r].content.kind = "array"
         /\ \A i \in 1..Len(req[r].content.items) :
               req[r].content.items[i].id # req[r].function_id)
        => /\ ChatResult(r).status = 404
           /\ ChatResult(r).tag = "notfound"
           /\ CallsOf(r, "GEMINI") = {}

\* A chat request for "zzz" read a document with the ids a and b and was
\* answered 404.
C5_Witness ==
    \E r \in Reqs :
        /\ req[r].kind = "chat"
        /\ req[r].function_id = "zzz"
        /\ req[r].message = <<"World">>
        /\ req[r].content = OtherDoc
        /\ req[r].pc = "done"
        /\ req[r].resp.status = 404

\* C6: handleChat called with a body that parses and whose message or
\* function_id is missing or empty returns 400, whatever the store holds and
\* whether or not the key is configured, and has then made no call to the
\* store or to the completion backend.
C6_Validation400 ==
    \A r \in Reqs :
        (/\ ChatEntered(r)
         /\ req[r].caught # "body"
         /\ Falsy(req[r].message) \/ FalsyId(req[r].function_id))
        => /\ ChatResult(r).status = 400
           /\ ChatResult(r).tag = "validation"
           /\ CallsOf(r, "GET_META") = {}
           /\ CallsOf(r, "GET_RAW") = {}
           /\ CallsOf(r, "GEMINI") = {}

\* An empty message for an id the document holds, with no key configured,
\* was answered 400.
C6_Witness ==
    \E r \in Reqs :
        /\ req[r].kind = "chat"
        /\ req[r].pc = "done"
        /\ req[r].message = <<>>
        /\ req[r].function_id = "a"
        /\ req[r].env = {}
        /\ storeBytes.kind = "array"
        /\ req[r].resp.status = 400

\* The response of a missing credential.
IsConfigError(resp) == resp.status = 500 /\ resp.tag = "config"

\* C7: a save without GITHUB_PAT, a chat request with both fields but
\* without GEMINI_API_KEY, and a webhook update without TELEGRAM_BOT_TOKEN
\* are each answered 500 with a configuration error by an invocation that
\* makes no outbound call; handleChat called by the webhook handler without
\* the key returns the same error and calls neither store nor backend.
C7_MissingCredential ==
    \A r \in Reqs :
        /\ (SaveEntered(r) /\ "GITHUB_PAT" \notin req[r].env)
           => /\ req[r].pc = "done"
              /\ IsConfigError(req[r].resp)
              /\ req[r].calls = <<>>
        /\ (/\ req[r].kind = "chat" /\ req[r].pc # "idle"
            /\ req[r].caught # "body"
            /\ ~Falsy(req[r].message) /\ ~FalsyId(req[r].function_id)
            /\ "GEMINI_API_KEY" \notin req[r].env)
           => /\ req[r].pc = "done"
              /\ IsConfigError(req[r].resp)
              /\ req[r].calls = <<>>
        /\ (req[r].kind = "webhook" /\ "TELEGRAM_BOT_TOKEN" \notin req[r].env)
           => /\ req[r].pc = "done"
              /\ IsConfigError(req[r].resp)
              /\ req[r].calls = <<>>
        /\ (/\ req[r].kind = "webhook" /\ ChatEntered(r)
            /\ ~Falsy(req[r].message)
            /\ "GEMINI_API_KEY" \notin req[r].env)
           => /\ IsConfigError(req[r].chatResp)
              /\ CallsOf(r, "GET_META") = {}
              /\ CallsOf(r, "GET_RAW") = {}
              /\ CallsOf(r, "GEMINI") = {}

\* An edited copy was posted without GITHUB_PAT and a valid chat request
\* arrived without GEMINI_API_KEY: both answered 500, neither made a call.
C7_Witness ==
    \E r1, r2 \in Reqs :
        /\ req[r1].kind = "save" /\ req[r1].pc = "done"
        /\ req[r1].loadedSha # None
        /\ "GITHUB_PAT" \notin req[r1].env
        /\ IsConfigError(req[r1].resp)
        /\ req[r2].kind = "chat" /\ req[r2].pc = "done"
        /\ req[r2].message = <<"World">> /\ req[r2].function_id = "a"
        /\ IsConfigError(req[r2].resp)

\* The PUT of invocation r that the store accepted.
AcceptedPut(r) ==
    req[r].calls[CHOOSE i \in CallsOf(r, "PUT") : OutOf(r, i) = "accepted"]

\* Some call of r was answered by the store with a status that is not ok.
UpstreamRefused(r) ==
    \E i \in 1..Len(req[r].calls) : OutOf(r, i) \in {"http", "conflict"}

\* C8 as claimed: a finished save answers 200 exactly when the store
\* accepted its PUT; the file then stored is the serialized new document
\* (it reads back as the document that was posted); and when the store
\* answered the token fetch or the commit with a failure status, the save
\* answers 500 with an error text that holds that status and body.
C8_SaveOutcome ==
    \A r \in Reqs :
        (SaveEntered(r) /\ req[r].pc = "done")
        => /\ req[r].resp.status = 200 <=> PutAccepted(r)
           /\ PutAccepted(r) =>
                 DocTextDecode(AcceptedPut(r).doc) = req[r].body
           /\ UpstreamRefused(r) =>
                 /\ req[r].resp.status = 500
                 /\ {"status", "body"} \subseteq req[r].resp.carries

\* The webhook handler reached its catch clause.
WebhookFailed(r) == req[r].caught \in {"update", "chat.id", "send"}

\* C9 as claimed: with the bot token configured, a finished webhook
\* invocation answers 500 "Error" when an internal failure occurred and
\* 200 "OK" otherwise.
C9_WebhookStatus ==
    \A r \in Reqs :
        (/\ req[r].kind = "webhook" /\ req[r].pc = "done"
         /\ "TELEGRAM_BOT_TOKEN" \in req[r].env)
        => IF WebhookFailed(r)
           THEN req[r].resp.status = 500 /\ req[r].resp.tag = "Error"
           ELSE req[r].resp.status = 200 /\ req[r].resp.tag = "OK"

\* C10 as claimed: a webhook invocation that failed after the chat of the
\* update was known has sent the generic error text to that chat and has
\* answered 500 "Error".
C10_ErrorNotification ==
    \A r \in Reqs :
        (/\ req[r].kind = "webhook" /\ req[r].pc = "done"
         /\ WebhookFailed(r)
         /\ req[r].chatId # None)
        => /\ \E i \in CallsOf(r, "SEND") :
                 /\ req[r].calls[i].text = GenericErrorText
                 /\ req[r].calls[i].chat = req[r].chatId
           /\ req[r].resp.status = 500
           /\ req[r].resp.tag = "Error"

\* The answers of the completion backend that are well formed and hold no
\* candidate or no text.
EmptyAnswers == {"noCandidates", "noContent", "noParts", "emptyParts", "noText"}

\* C11 as claimed: when the completion backend answers with a success that
\* holds no candidate or no text (no candidates, no content, no parts, an
\* empty parts list, a first part without text), handleChat returns 200 with
\* the fallback message.
C11_FallbackOnEmptyAnswer ==
    \A r \in Reqs : \A i \in CallsOf(r, "GEMINI") :
        OutOf(r, i) \in EmptyAnswers
        => /\ ChatResult(r).status = 200
           /\ ChatResult(r).tag = "response"
           /\ ChatResult(r).text = FallbackText

-----------------------------------------------------------------------------
\* Rendering of templates: chat requests over a store whose document holds
\* one template, with templates and messages drawn from bounded sets.

MaxTplLen == 2
MaxMsgLen == 2

SeqsUpTo(S, n) == UNION {[1..k -> S] : k \in 0..n}

\* The placeholders of the fixed context and the ones bound to the message.
ContextPlaceholders ==
    {"{{user_preferences}}", "{{product_data}}", "{{size_chart}}",
     "{{user_measurements}}", "{{order_number}}", "{{order_status_data}}"}
MessagePlaceholders ==
    {"{{user_preferences}}", "{{user_measurements}}", "{{order_number}}"}

TemplateSymbols == {"Hello ", "{{name}}"} \cup ContextPlaceholders
MessageSymbols ==
    {"World", "{{name}}", "{{product_data}}", "{{user_preferences}}", "$&", "$$"}

Templates == SeqsUpTo(TemplateSymbols, MaxTplLen)
RenderMessages == SeqsUpTo(MessageSymbols, MaxMsgLen)

TemplateDoc(t) == Array(<<[id |-> "a", prompt |-> t]>>)

RenderInit ==
    /\ storeBytes \in {DocUtf8Encode(TemplateDoc(t)) : t \in Templates}
    /\ storeSha = 0
    /\ req = [r \in Reqs |-> IdleReq]

RenderNext ==
    \/ \E m \in RenderMessages : ChatStart(1, TRUE, m, "a", {"GEMINI_API_KEY"})
    \/ MetaResponse(1, "ok")
    \/ RawResponse(1, "ok")
    \/ GenResponse(1, "text")

SpecRender == RenderInit /\ [][RenderNext]_vars

\* The value the fixed context binds to a placeholder.
ContextValue(ph, userMessage) ==
    CASE ph \in MessagePlaceholders -> userMessage
      [] ph = "{{product_data}}" -> ProductData
      [] ph = "{{size_chart}}" -> SizeChart
      [] ph = "{{order_status_data}}" -> OrderStatusData

\* The template with every placeholder of the context replaced by its value
\* and everything else left as it is.
RECURSIVE Substituted(_, _)
Substituted(template, userMessage) ==
    IF template = <<>> THEN <<>>
    ELSE (IF Head(template) \in ContextPlaceholders
          THEN ContextValue(Head(template), userMessage)
          ELSE <<Head(template)>>)
         \o Substituted(Tail(template), userMessage)

Symbols(str) == {str[i] : i \in 1..Len(str)}

\* The template a chat invocation selected from the document it read.
TemplateOf(r) ==
    req[r].content.items[FindPrompt(req[r].content.items, req[r].function_id)].prompt

\* C12 as claimed: the prompt sent to the completion backend is the selected
\* template with every occurrence of every placeholder of the fixed context
\* replaced by its value, and every other placeholder left unchanged.
C12_AllPlaceholdersReplaced ==
    \A r \in Reqs : \A i \in CallsOf(r, "GEMINI") :
        req[r].calls[i].text = Substituted(TemplateOf(r), req[r].message)

\* C13 as claimed: a placeholder that occurs only inside the message, and
\* not in the template, appears verbatim in the prompt sent whenever the
\* message is inserted at all.
C13_MessageNotRescanned ==
    \A r \in Reqs : \A i \in CallsOf(r, "GEMINI") :
        \A ph \in ContextPlaceholders \cup {"{{name}}"} :
            /\ ph \in Symbols(req[r].message)
            /\ ph \notin Symbols(TemplateOf(r))
            /\ Symbols(TemplateOf(r)) \cap MessagePlaceholders # {}
            => ph \in Symbols(req[r].calls[i].text)

DollarPatterns == {"$&", "$$"}

\* A message that holds neither a placeholder of the fixed context nor a
\* replacement pattern.
PlainMessage(m) == Symbols(m) \cap (ContextPlaceholders \cup DollarPatterns) = {}

-----------------------------------------------------------------------------
\* The chat handler of invocation r asked for the document's metadata while
\* the store held no document at the key, and the store refused (404).
MissingDocumentFetch(r) ==
    /\ ChatEntered(r)
    /\ storeBytes.kind = "missing"
    /\ 1 \in CallsOf(r, "GET_META")
    /\ OutOf(r, 1) = "http"

\* C15 as claimed: a chat request that finds no document at the key is
\* answered 404 as a not-found error.
C15_MissingDocument404 ==
    \A r \in Reqs :
        MissingDocumentFetch(r)
        => ChatResult(r).status = 404 /\ ChatResult(r).tag = "notfound"

-----------------------------------------------------------------------------
\* The requests an invocation has issued so far, by operation.
OpsOf(rec) == [i \in 1..Len(rec.calls) |-> rec.calls[i].op]

\* The phase of a save invocation.
SavePhase(rec) ==
    CASE rec.pc \in {"idle", "loaded", "edited"} -> "Idle"
      [] rec.pc \in {"meta", "raw"} -> "FetchingToken"
      [] rec.pc = "put" -> "Writing"
      [] OTHER -> "Done"

SavePhaseOrder ==
    {<<"Idle", "Idle">>, <<"Idle", "FetchingToken">>, <<"Idle", "Done">>,
     <<"FetchingToken", "FetchingToken">>, <<"FetchingToken", "Writing">>,
     <<"FetchingToken", "Done">>, <<"Writing", "Writing">>,
     <<"Writing", "Done">>, <<"Done", "Done">>}

\* The token fetch or the parse of the body of a save invocation failed.
SaveFetchFailed(rec) ==
    \/ rec.caught = "body"
    \/ \E i \in 1..Len(rec.outs) :
          rec.calls[i].op \in {"GET_META", "GET_RAW"} /\ rec.outs[i] # "ok"

\* C16: every save invocation with the credential configured goes through
\* Idle, FetchingToken, Writing and one terminal outcome in that order and
\* starts with no state of an earlier invocation; it issues at most one
\* write, and only after both requests of the token fetch succeeded; when
\* the fetch or the parse of the body fails it ends in a failure with no
\* write and no second attempt; a terminal outcome is never left.
C16_SaveLifecycle ==
    [][\A r \in Reqs :
          LET old == req[r]
              new == req'[r]
          IN  (new.kind = "save" /\ "GITHUB_PAT" \in new.env)
              => /\ <<SavePhase(old), SavePhase(new)>> \in SavePhaseOrder
                 /\ SavePhase(old) = "Done" => new = old
                 /\ (SavePhase(old) = "Idle" /\ new.pc = "meta")
                    => /\ OpsOf(new) = <<"GET_META">>
                       /\ new.outs = <<>>
                       /\ new.sha = None
                       /\ new.content = Missing
                 /\ SavePhase(new) = "Writing"
                    => /\ OpsOf(new) = <<"GET_META", "GET_RAW", "PUT">>
                       /\ new.outs = <<"ok", "ok">>
                 /\ \A i, j \in 1..Len(new.calls) :
                       (new.calls[i].op = new.calls[j].op) => i = j
                 /\ SaveFetchFailed(new)
                    => /\ new.pc = "done"
                       /\ new.resp.status = 500
                       /\ "PUT" \notin {new.calls[i].op : i \in 1..Len(new.calls)}
                       /\ Len(new.calls) = Len(new.outs)
    ]_vars

\* One save wrote after its token fetch succeeded and another one ended in
\* a failure because its token fetch was refused.
C16_Witness ==
    \E r, q \in Reqs :
        /\ req[r].kind = "save" /\ "GITHUB_PAT" \in req[r].env
        /\ req[r].pc = "done"
        /\ OpsOf(req[r]) = <<"GET_META", "GET_RAW", "PUT">>
        /\ req[r].resp.status = 200
        /\ req[q].kind = "save" /\ "GITHUB_PAT" \in req[q].env
        /\ req[q].pc = "done"
        /\ SaveFetchFailed(req[q])
        /\ OpsOf(req[q]) = <<"GET_META", "GET_RAW">>

-----------------------------------------------------------------------------
\* The record is a chat request, direct or through the webhook, that passed
\* the validation and the configuration check of handleChat.
ChatAdmitted(rec) ==
    /\ \/ rec.kind = "chat" /\ rec.pc # "idle"
       \/ rec.kind = "webhook" /\ rec.upd = "full"
          /\ "TELEGRAM_BOT_TOKEN" \in rec.env
    /\ ~Falsy(rec.message)
    /\ ~FalsyId(rec.function_id)
    /\ "GEMINI_API_KEY" \in rec.env

\* What handleChat does with the document that the store holds now.
SelectedFrom(doc, rec) ==
    IF doc.kind # "array" THEN "parse error"
    ELSE IF FindPrompt(doc.items, rec.function_id) = 0 THEN "not found"
    ELSE "prompt"

\* C17: no step of a chat request changes the stored document or its
\* token; a chat request that passed validation and configuration starts
\* with its own read of the store, and the step that receives the content
\* selects the prompt from the document the store holds at that step (the
\* committed one when a save has committed before), never from an earlier
\* copy.
C17_ChatReadsStoreEachTime ==
    [][\A r \in Reqs :
          LET old == req[r]
              new == req'[r]
          IN  (new # old /\ new.kind \in {"chat", "webhook"})
              => /\ storeBytes' = storeBytes
                 /\ storeSha' = storeSha
                 /\ ChatAdmitted(new) => new.calls[1].op = "GET_META"
                 /\ (old.pc = "raw" /\ new.outs[2] = "ok")
                    => /\ new.content = StoreText
                       /\ new.contentRev = storeSha
                       /\ CASE SelectedFrom(StoreText, new) = "prompt" ->
                                 /\ OpsOf(new) = <<"GET_META", "GET_RAW", "GEMINI">>
                                 /\ new.calls[3].text =
                                      FinalPrompt(
                                        StoreText.items[
                                          FindPrompt(StoreText.items,
                                                     new.function_id)].prompt,
                                        new.message)
                            [] SelectedFrom(StoreText, new) = "not found" ->
                                 /\ "GEMINI" \notin Symbols(OpsOf(new))
                                 /\ (IF new.kind = "chat" THEN new.resp
                                     ELSE new.chatResp).status = 404
                            [] OTHER ->
                                 "GEMINI" \notin Symbols(OpsOf(new))
    ]_vars

\* A chat request whose read started after a save had committed rendered the
\* prompt of the committed document.
C17_Witness ==
    \E r, q \in Reqs :
        /\ req[q].kind = "save" /\ req[q].pc = "done" /\ req[q].replaced = 0
        /\ req[q].body = OtherDoc
        /\ req[r].kind = "chat"
        /\ req[r].function_id = "a"
        /\ req[r].sha = 1 /\ req[r].contentRev = 1
        /\ \E i \in CallsOf(r, "GEMINI") : req[r].calls[i].text = <<"World">>

-----------------------------------------------------------------------------
\* Invocation r is a webhook call with the bot token configured.
WebhookEntered(r) ==
    req[r].kind = "webhook" /\ "TELEGRAM_BOT_TOKEN" \in req[r].env

\* The text the webhook forwards for a result of the chat handler.
NotificationText(chatResp) ==
    IF chatResp.status # 200
    THEN <<ErrorPrefix, chatResp.tag>>
    ELSE chatResp.text

\* Invocation r sent exactly one notification, after its chat handler had
\* returned, to the chat of its update and with the chat handler's result.
OneNotification(r) ==
    /\ req[r].chatResp # NoResp
    /\ Cardinality(CallsOf(r, "SEND")) = 1
    /\ \A i \in CallsOf(r, "SEND") :
          /\ i = Len(req[r].calls)
          /\ req[r].calls[i].chat = req[r].chatId
          /\ req[r].calls[i].text = NotificationText(req[r].chatResp)

-----------------------------------------------------------------------------
\* C19 as claimed: the content and the token that one call of
\* fetchPromptsFromGitHub returns belong to the same revision of the stored
\* document.
C19_PairOfOneRevision ==
    \A r \in Reqs :
        req[r].contentRev # None => req[r].contentRev = req[r].sha

=============================================================================
